---- MODULE Spec2Model ----
(***************************************************************************)
(* Fault-injection HTTP proxy (src/src/main.rs).                           *)
(*                                                                         *)
(* The process reads its configuration from the environment, binds a       *)
(* listener and serves POST /delay (delay_handler) and POST /failure       *)
(* (failure_handler).  Every handler invocation is an independent task;    *)
(* the tasks share only the immutable Config.  A handler is modelled from  *)
(* the point where axum has extracted the headers and the JSON payload,    *)
(* and is cut into steps at its await points.                              *)
(*                                                                         *)
(* Floating point values (probabilities, rates) are held in tenths: the    *)
(* integer 8 stands for 0.8, 15 for 1.5.  Header and environment values    *)
(* are strings; every parser is a table over the strings the model feeds   *)
(* it, each row giving what the Rust parser returns for that string.       *)
(***************************************************************************)
EXTENDS Integers, Sequences, FiniteSets, TLC

VARIABLES
    env,        \* the process environment: TARGET_URL, SUCCESS_PROBABILITY
    serverPc,   \* position of main(): "start", "configured", "listening", "crashed"
    config,     \* the Config held in the shared state (meaningful once configured)
    reqs        \* per connection slot: the handler task's locals and position

vars == <<env, serverPc, config, reqs>>

(***************************************************************************)
(* Bounds                                                                  *)
(***************************************************************************)
\* Number of connection slots, each serving one request at a time.
MaxReq == 2

Reqs == 1..MaxReq

(***************************************************************************)
(* Option values                                                           *)
(***************************************************************************)
Some(v) == [some |-> TRUE, val |-> v]
NoneN   == [some |-> FALSE, val |-> 0]
NoneS   == [some |-> FALSE, val |-> ""]
NoneB   == [some |-> FALSE, val |-> FALSE]

(***************************************************************************)
(* Environment and header strings                                          *)
(***************************************************************************)
\* An absent environment variable or header.
Absent == "<absent>"
\* A header value holding bytes outside visible ASCII: HeaderValue::to_str fails.
OpaqueBytes == "<bytes 0xC3 0xA9>"

ConfiguredUrl == "http://target.example/api"
OverrideUrl   == "http://alt.example/hook"
MalformedUrl  == "not a uri"

EnvTargetUrls     == {Absent, ConfiguredUrl}
EnvSuccessProbs   == {Absent, "0.5", "1.5", "abc"}

HeaderNames == {"X-Constant-Delay-Ms", "X-Max-Random-Delay-Ms", "X-Failure-Rate",
                "X-Failure-Status-Code", "X-Return-Original", "X-Proxy-Url"}

\* str::parse::<f64>, in tenths.
ParseF64(s) ==
    CASE s = "0"   -> Some(0)
      [] s = "0.5" -> Some(5)
      [] s = "0.8" -> Some(8)
      [] s = "1"   -> Some(10)
      [] s = "1.5" -> Some(15)
      [] s = "2"   -> Some(20)
      [] s = "abc" -> NoneN
      [] s = ""    -> NoneN

\* str::parse::<u64>.
ParseU64(s) ==
    CASE s = "0"   -> Some(0)
      [] s = "1"   -> Some(1)
      [] s = "2"   -> Some(2)
      [] s = "-1"  -> NoneN
      [] s = "abc" -> NoneN

\* str::parse::<u16>.
ParseU16(s) ==
    CASE s = "503"   -> Some(503)
      [] s = "99"    -> Some(99)
      [] s = "70000" -> NoneN
      [] s = "abc"   -> NoneN

\* str::parse::<bool>: exactly "true" and "false" parse.
ParseBool(s) ==
    CASE s = "true"  -> Some(TRUE)
      [] s = "false" -> Some(FALSE)
      [] s = "yes"   -> NoneB
      [] s = "1"     -> NoneB

\* StatusCode::from_u16(n).ok(): the http crate accepts 100..=999.
StatusFromU16(n) == IF n >= 100 /\ n < 1000 THEN Some(n) ELSE NoneN

\* headers.get(name).and_then(|h| h.to_str().ok())
HeaderStr(headers, name) ==
    IF headers[name] = Absent \/ headers[name] = OpaqueBytes
    THEN NoneS
    ELSE Some(headers[name])

\* Whether Request::builder().uri(s) accepts s (http::Uri parsing).
ValidUri(s) == s \in {ConfiguredUrl, OverrideUrl}

(***************************************************************************)
(* JSON                                                                    *)
(*                                                                         *)
(* A serde_json::Value is held as [json |-> its compact serialization].    *)
(* A body built with json!({...}) is a record with the object's keys.      *)
(***************************************************************************)
JNull == [json |-> "null"]

Payloads == {[json |-> "{\"a\":1}"], [json |-> "[1,2]"]}

\* Bodies a downstream service may answer with (raw bytes).
RawBodies == {"{\"ok\":true}", "{ \"ok\" : true }", "<html>oops</html>", "null"}

\* serde_json::to_vec(&payload): the compact serialization; a Value always serializes.
ToVec(value) == [ok |-> TRUE, bytes |-> value.json, err |-> ""]

\* serde_json::from_slice::<Value>(&body_bytes)
FromSlice(raw) ==
    CASE raw = "{\"ok\":true}"       -> [ok |-> TRUE, value |-> [json |-> "{\"ok\":true}"]]
      [] raw = "{ \"ok\" : true }"   -> [ok |-> TRUE, value |-> [json |-> "{\"ok\":true}"]]
      [] raw = "null"                -> [ok |-> TRUE, value |-> JNull]
      [] raw = "<html>oops</html>"   -> [ok |-> FALSE, value |-> JNull]

\* Variant: an undecodable body is kept as an object wrapping the raw text.
DecodeBodyWrapsRaw(raw) ==
    IF FromSlice(raw).ok THEN FromSlice(raw).value ELSE [json |-> "{\"raw\":\"...\"}"]

\* match serde_json::from_slice(..) { Ok(json) => json, Err(_) => Value::Null }
DecodeBody(raw) == IF FromSlice(raw).ok THEN FromSlice(raw).value ELSE JNull

\* Status codes a downstream service may answer with.
DownStatuses == {200, 500}

\* e.to_string() of a hyper client / body error.
TransportCauses == {"connection refused"}
BodyCauses == {"connection reset while reading body"}

(***************************************************************************)
(* Config::from_env and main                                               *)
(***************************************************************************)
NoConfig == [target_url |-> "", success_probability |-> 0]

\* Config::from_env: ok = FALSE stands for the panic of an expect().
FromEnv(e) ==
    LET probStr == IF e.SUCCESS_PROBABILITY = Absent THEN "0.8" ELSE e.SUCCESS_PROBABILITY
        prob    == ParseF64(probStr)
    IN  IF e.TARGET_URL = Absent THEN [ok |-> FALSE, config |-> NoConfig]
        ELSE IF ~prob.some THEN [ok |-> FALSE, config |-> NoConfig]
        ELSE [ok |-> TRUE,
              config |-> [target_url |-> e.TARGET_URL, success_probability |-> prob.val]]

(***************************************************************************)
(* Requests                                                                *)
(***************************************************************************)
NoResponse == [status |-> 0, body |-> [none |-> TRUE]]

Headers(c, m, f, s, o, u) ==
    [n \in HeaderNames |->
        CASE n = "X-Constant-Delay-Ms"    -> c
          [] n = "X-Max-Random-Delay-Ms"  -> m
          [] n = "X-Failure-Rate"         -> f
          [] n = "X-Failure-Status-Code"  -> s
          [] n = "X-Return-Original"      -> o
          [] n = "X-Proxy-Url"            -> u]

NoHeaders == Headers(Absent, Absent, Absent, Absent, Absent, Absent)

IdleReq ==
    [pc |-> "idle", endpoint |-> "", headers |-> NoHeaders, payload |-> JNull,
     constant_delay_ms |-> NoneN, max_random_delay_ms |-> NoneN, random_delay |-> 0,
     constSlept |-> 0, randSlept |-> 0,
     return_original |-> FALSE, failure_rate |-> 0, failure_status |-> 0,
     should_succeed |-> FALSE, target_url |-> "",
     sent |-> <<>>, downStatus |-> 0, downBody |-> "",
     response |-> NoResponse, hist |-> <<>>]

ConstantDelayValues == {Absent, "1", "abc"}
MaxRandomDelayValues == {Absent, "0", "2", "abc"}
FailureRateValues == {Absent, "0", "1", "0.5", "2", "abc"}
FailureStatusValues == {Absent, "503", "99", "abc"}
ReturnOriginalValues == {Absent, "true", "yes"}
ProxyUrlValues == {Absent, OverrideUrl, MalformedUrl, OpaqueBytes}

\* Requests a client may send, one after another.
DelayInputs ==
    { [endpoint |-> "/delay", headers |-> Headers(c, m, f[1], f[2], f[3], u), payload |-> p] :
        c \in ConstantDelayValues, m \in MaxRandomDelayValues,
        f \in {<<Absent, Absent, Absent>>, <<"1", "503", "true">>},
        u \in ProxyUrlValues, p \in Payloads }

FailureInputs ==
    { [endpoint |-> "/failure", headers |-> Headers(d[1], d[2], f, s, o, u), payload |-> p] :
        d \in {<<Absent, Absent>>, <<"2", "2">>},
        f \in FailureRateValues, s \in FailureStatusValues, o \in ReturnOriginalValues,
        u \in ProxyUrlValues, p \in Payloads }

Inputs == DelayInputs \cup FailureInputs

(***************************************************************************)
(* Initial state and startup                                               *)
(***************************************************************************)
Init ==
    /\ env \in [TARGET_URL : EnvTargetUrls, SUCCESS_PROBABILITY : EnvSuccessProbs]
    /\ serverPc = "start"
    /\ config = NoConfig
    /\ reqs = [r \in Reqs |-> IdleReq]

\* main, line 54: let config = Config::from_env(); a panic ends the process.
Startup ==
    /\ serverPc = "start"
    /\ IF FromEnv(env).ok
       THEN serverPc' = "configured" /\ config' = FromEnv(env).config
       ELSE serverPc' = "crashed" /\ config' = config
    /\ UNCHANGED <<env, reqs>>

\* main, lines 56-72: build the client and the router, bind, serve.
Bind ==
    /\ serverPc = "configured"
    /\ serverPc' = "listening"
    /\ UNCHANGED <<env, config, reqs>>

\* TcpListener::bind(..).await.unwrap() when the bind fails.
BindError ==
    /\ serverPc = "configured"
    /\ serverPc' = "crashed"
    /\ UNCHANGED <<env, config, reqs>>

\* Variant: a wait that blocks the worker, so no other task runs meanwhile.
RunnableUnlessAnotherSleeps(r) ==
    \A o \in Reqs \ {r} : reqs[o].pc \notin {"constSleep", "randSleep"}

\* Whether the runtime can run the task of slot r.  Every wait of a handler is
\* an .await (tokio::time::sleep, client.request, collect): it suspends the
\* awaiting task only, so a task is runnable whatever the other tasks do.
Runnable(r) == TRUE

\* A step of the task of slot r: it writes its own locals and nothing else.
SetReq(r, rec) ==
    /\ Runnable(r)
    /\ reqs' = [reqs EXCEPT ![r] = rec]
    /\ UNCHANGED <<env, serverPc, config>>

\* axum hands an extracted request (headers, Json payload) to its handler.
Receive(r, in) ==
    /\ serverPc = "listening"
    /\ reqs[r].pc = "idle"
    /\ SetReq(r, [IdleReq EXCEPT !.pc = "received", !.endpoint = in.endpoint,
                                 !.headers = in.headers, !.payload = in.payload,
                                 !.hist = <<"received">>])

\* The connection is ready for its next request.
Release(r) ==
    /\ reqs[r].pc \in {"done", "panicked"}
    /\ SetReq(r, IdleReq)

(***************************************************************************)
(* Pieces shared by the two handlers (the code repeats them verbatim)      *)
(***************************************************************************)
\* Variant: the X-Proxy-Url header is never consulted.
ResolveTargetUrlIgnoresHeader(headers, cfg) == cfg.target_url

\* headers.get("X-Proxy-Url").and_then(|h| h.to_str().ok()).unwrap_or(&config.target_url)
ResolveTargetUrl(headers, cfg) ==
    LET h == HeaderStr(headers, "X-Proxy-Url")
    IN  IF h.some THEN h.val ELSE cfg.target_url

\* 400: json!({"error": "Failed to serialize request body", "details": e.to_string()})
SerializeErrorResponse(err) ==
    [status |-> 400,
     body |-> [error |-> "Failed to serialize request body", details |-> err]]

\* 502: json!({"error": "Failed to forward request", "details": .., "target_url": ..})
ForwardErrorResponse(cause, url) ==
    [status |-> 502,
     body |-> [error |-> "Failed to forward request", details |-> cause, target_url |-> url]]

\* Variant: a body-read failure answered as an internal error.
ReadErrorResponseAs500(cause) ==
    [status |-> 500,
     body |-> [error |-> "Failed to read response body", details |-> cause]]

\* 502: json!({"error": "Failed to read response body", "details": e.to_string()})
ReadErrorResponse(cause) ==
    [status |-> 502,
     body |-> [error |-> "Failed to read response body", details |-> cause]]

\* Serialize the payload, build the POST request and hand it to the client.
\* Request::builder()...body(..).unwrap() panics on a URI the http crate rejects.
ForwardStep(q, url) ==
    LET bytes == ToVec(q.payload)
    IN  IF ~bytes.ok
        THEN [q EXCEPT !.pc = "done", !.target_url = url,
                       !.response = SerializeErrorResponse(bytes.err),
                       !.hist = Append(q.hist, "respond")]
        ELSE IF ~ValidUri(url)
        THEN [q EXCEPT !.pc = "panicked", !.target_url = url,
                       !.hist = Append(q.hist, "panic")]
        ELSE [q EXCEPT !.pc = "awaitHead", !.target_url = url,
                       !.sent = Append(q.sent, [url |-> url, body |-> bytes.bytes]),
                       !.hist = Append(q.hist, "send")]

(***************************************************************************)
(* delay_handler                                                           *)
(***************************************************************************)
\* headers.get(name).and_then(|h| h.to_str().ok()).and_then(|s| s.parse().ok())
DelayHeader(headers, name) ==
    LET h == HeaderStr(headers, name)
    IN  IF h.some THEN ParseU64(h.val) ELSE NoneN

\* Variant: the drawn range runs one past the maximum.
RandomDelaysPastMax(max) == 0..(max + 1)

\* rand::thread_rng().gen_range(0..=max_delay_ms)
RandomDelays(max) == 0..max

\* max_random_delay_ms.map(|max| format!("0-{}", max))
RandomDelayLabel(max) ==
    IF max.some THEN [some |-> TRUE, val |-> "0-" \o ToString(max.val)] ELSE NoneS

\* Variant: the envelope does not report the delays.
DelayEnvelopeWithoutDelays(q, body) ==
    [status |-> "success", target_url |-> q.target_url, response |-> body]

\* The 200-style envelope of /delay.
DelayEnvelope(q, body) ==
    [status |-> "success",
     applied_delays |-> [constant_delay_ms |-> q.constant_delay_ms,
                         random_delay_ms |-> RandomDelayLabel(q.max_random_delay_ms)],
     target_url |-> q.target_url,
     response |-> body]

\* Lines 81-96: decode the two delay headers; start the constant wait if one is set.
DelayDecode(r) ==
    LET q == reqs[r]
        c == DelayHeader(q.headers, "X-Constant-Delay-Ms")
        m == DelayHeader(q.headers, "X-Max-Random-Delay-Ms")
    IN  /\ q.pc = "received" /\ q.endpoint = "/delay"
        /\ SetReq(r, [q EXCEPT !.constant_delay_ms = c, !.max_random_delay_ms = m,
                               !.pc = IF c.some THEN "constSleep" ELSE "afterConst",
                               !.hist = q.hist \o (IF c.some THEN <<"plan", "constStart">>
                                                             ELSE <<"plan">>)])

\* Line 96: tokio::time::sleep(Duration::from_millis(delay_ms)) completes.
DelayConstElapsed(r) ==
    LET q == reqs[r]
    IN  /\ q.pc = "constSleep"
        /\ SetReq(r, [q EXCEPT !.pc = "afterConst",
                               !.constSlept = q.constant_delay_ms.val,
                               !.hist = Append(q.hist, "constEnd")])

\* Variant: the random wait is started while the constant wait is still running.
DelayRandomDrawDuringConstWait(r) ==
    LET q == reqs[r]
    IN  /\ q.pc \in {"constSleep", "afterConst"}
        /\ IF q.max_random_delay_ms.some
           THEN \E d \in 0..q.max_random_delay_ms.val :
                    SetReq(r, [q EXCEPT !.pc = "randSleep", !.random_delay = d,
                                        !.hist = Append(q.hist, "randStart")])
           ELSE SetReq(r, [q EXCEPT !.pc = "afterDelay"])

\* Lines 99-101: draw the random delay and start waiting for it.
DelayRandomDraw(r) ==
    LET q == reqs[r]
    IN  /\ q.pc = "afterConst"
        /\ IF q.max_random_delay_ms.some
           THEN \E d \in RandomDelays(q.max_random_delay_ms.val) :
                    SetReq(r, [q EXCEPT !.pc = "randSleep", !.random_delay = d,
                                        !.hist = Append(q.hist, "randStart")])
           ELSE SetReq(r, [q EXCEPT !.pc = "afterDelay"])

\* Line 101: the random sleep completes.
DelayRandElapsed(r) ==
    LET q == reqs[r]
    IN  /\ q.pc = "randSleep"
        /\ SetReq(r, [q EXCEPT !.pc = "afterDelay", !.randSlept = q.random_delay,
                               !.hist = Append(q.hist, "randEnd")])

\* Variant: /delay runs the failure gate of /failure before forwarding.
DelayForwardBehindGate(r) ==
    LET q   == reqs[r]
        url == IF HeaderStr(q.headers, "X-Proxy-Url").some
               THEN q.headers["X-Proxy-Url"] ELSE config.target_url
    IN  /\ q.pc = "afterDelay"
        /\ IF q.headers["X-Failure-Rate"] = "1"
           THEN SetReq(r, [q EXCEPT !.pc = "done", !.target_url = url,
                                    !.response =
                                        [status |-> 500,
                                         body |-> [error |-> "Simulated failure",
                                                   target_url |-> url]],
                                    !.hist = q.hist \o <<"trial", "respond">>])
           ELSE SetReq(r, ForwardStep(q, url))

\* Lines 104-132: resolve the target, serialize, build and send the request.
DelayForward(r) ==
    LET q == reqs[r]
    IN  /\ q.pc = "afterDelay"
        /\ SetReq(r, ForwardStep(q, ResolveTargetUrl(q.headers, config)))

\* Variant: a failed forward is tried again.
DelayTransportErrorRetries(r) ==
    LET q == reqs[r]
    IN  /\ q.pc = "awaitHead" /\ q.endpoint = "/delay" /\ Len(q.sent) < 2
        /\ SetReq(r, [q EXCEPT !.pc = "afterDelay",
                               !.hist = Append(q.hist, "forwardError")])

\* Lines 163-170: client.request(req).await is Err(e).
DelayTransportError(r) ==
    LET q == reqs[r]
    IN  /\ q.pc = "awaitHead" /\ q.endpoint = "/delay"
        /\ \E cause \in TransportCauses :
              SetReq(r, [q EXCEPT !.pc = "done",
                                  !.response = ForwardErrorResponse(cause, q.target_url),
                                  !.hist = q.hist \o <<"forwardError", "respond">>])

\* Lines 133-135: the response head arrives; the body is being collected.
DelayResponseHead(r) ==
    LET q == reqs[r]
    IN  /\ q.pc = "awaitHead" /\ q.endpoint = "/delay"
        /\ \E st \in DownStatuses :
              SetReq(r, [q EXCEPT !.pc = "awaitBody", !.downStatus = st,
                                  !.hist = Append(q.hist, "head")])

\* Lines 137-145: resp.into_body().collect().await is Err(e).
DelayBodyError(r) ==
    LET q == reqs[r]
    IN  /\ q.pc = "awaitBody" /\ q.endpoint = "/delay"
        /\ \E cause \in BodyCauses :
              SetReq(r, [q EXCEPT !.pc = "done", !.response = ReadErrorResponse(cause),
                                  !.hist = q.hist \o <<"readError", "respond">>])

\* Lines 136, 148-161: the body is collected, decoded and wrapped.
DelayCompose(r) ==
    LET q == reqs[r]
    IN  /\ q.pc = "awaitBody" /\ q.endpoint = "/delay"
        /\ \E raw \in RawBodies :
              SetReq(r, [q EXCEPT !.pc = "done", !.downBody = raw,
                                  !.response = [status |-> q.downStatus,
                                                body |-> DelayEnvelope(q, DecodeBody(raw))],
                                  !.hist = q.hist \o <<"body", "respond">>])

(***************************************************************************)
(* failure_handler                                                         *)
(***************************************************************************)
\* StatusCode::INTERNAL_SERVER_ERROR, the default of X-Failure-Status-Code.
DefaultFailureStatus == 500

\* Lines 191-195: X-Return-Original, parsed as bool, default false.
ReturnOriginal(headers) ==
    LET h == HeaderStr(headers, "X-Return-Original")
        b == IF h.some THEN ParseBool(h.val) ELSE NoneB
    IN  IF b.some THEN b.val ELSE FALSE

\* Lines 198-202: X-Failure-Rate, parsed as f64, default 1.0 - success_probability.
FailureRate(headers, cfg) ==
    LET h == HeaderStr(headers, "X-Failure-Rate")
        f == IF h.some THEN ParseF64(h.val) ELSE NoneN
    IN  IF f.some THEN f.val ELSE 10 - cfg.success_probability

\* Lines 205-211: X-Failure-Status-Code, parsed as u16 and as a StatusCode, default 500.
FailureStatus(headers) ==
    LET h == HeaderStr(headers, "X-Failure-Status-Code")
        n == IF h.some THEN ParseU16(h.val) ELSE NoneN
        c == IF n.some THEN StatusFromU16(n.val) ELSE NoneN
    IN  IF c.some THEN c.val ELSE DefaultFailureStatus

\* Rng::gen_bool(p) panics unless 0 <= p <= 1 (p in tenths).
GenBoolPanics(p) == p < 0 \/ p > 10

\* Variant: a trial whose extreme probabilities are not certain.
GenBoolOutcomesNeverCertain(p) == {TRUE, FALSE}

\* The results gen_bool(p) can return: p = 0 never true, p = 1 always true.
GenBoolOutcomes(p) ==
    IF p = 0 THEN {FALSE} ELSE IF p = 10 THEN {TRUE} ELSE {TRUE, FALSE}

\* Variant: the synthetic failure does not echo the request payload.
SyntheticFailureDropsPayload(q, rate, status, url) ==
    [status |-> status,
     body |-> [error |-> "Simulated failure",
               target_url |-> url,
               failure_rate |-> rate,
               status_code |-> status,
               request_body |-> JNull]]

\* Lines 224-233: the synthetic failure.
SyntheticFailure(q, rate, status, url) ==
    [status |-> status,
     body |-> [error |-> "Simulated failure",
               target_url |-> url,
               failure_rate |-> rate,
               status_code |-> status,
               request_body |-> q.payload]]

\* Variant: a collected downstream body is always answered with 200.
FailureSuccessResponseAlways200(q, body) ==
    IF q.return_original
    THEN [status |-> 200, body |-> body]
    ELSE [status |-> 200,
          body |-> [status |-> "success", target_url |-> q.target_url, response |-> body]]

\* Lines 279-287: the response for a collected downstream body.
FailureSuccessResponse(q, body) ==
    IF q.return_original
    THEN [status |-> q.downStatus, body |-> body]
    ELSE [status |-> q.downStatus,
          body |-> [status |-> "success", target_url |-> q.target_url, response |-> body]]

\* Variant: the failure gate is skipped when X-Return-Original is true.
FailureGateSkippedOnReturnOriginal(r) ==
    LET q      == reqs[r]
        ret    == ReturnOriginal(q.headers)
        rate   == FailureRate(q.headers, config)
        status == FailureStatus(q.headers)
        url    == IF HeaderStr(q.headers, "X-Proxy-Url").some
                  THEN q.headers["X-Proxy-Url"] ELSE config.target_url
        plan   == [q EXCEPT !.return_original = ret, !.failure_rate = rate,
                            !.failure_status = status, !.target_url = url]
    IN  /\ q.pc = "received" /\ q.endpoint = "/failure"
        /\ IF GenBoolPanics(10 - rate)
           THEN SetReq(r, [plan EXCEPT !.pc = "panicked", !.target_url = "",
                                       !.hist = q.hist \o <<"plan", "trial", "panic">>])
           ELSE \E ok \in GenBoolOutcomes(10 - rate) :
                  IF ok \/ ret
                  THEN SetReq(r, [plan EXCEPT !.pc = "gatePassed", !.should_succeed = TRUE,
                                              !.hist = q.hist \o <<"plan", "trial">>])
                  ELSE SetReq(r, [plan EXCEPT !.pc = "done", !.should_succeed = FALSE,
                                              !.response = SyntheticFailure(q, rate, status, url),
                                              !.hist = q.hist \o <<"plan", "trial", "respond">>])

\* Lines 188-234: decode the headers, run the trial, answer at once if it fails.
FailureGate(r) ==
    LET q      == reqs[r]
        ret    == ReturnOriginal(q.headers)
        rate   == FailureRate(q.headers, config)
        status == FailureStatus(q.headers)
        url    == ResolveTargetUrl(q.headers, config)
        plan   == [q EXCEPT !.return_original = ret, !.failure_rate = rate,
                            !.failure_status = status]
    IN  /\ q.pc = "received" /\ q.endpoint = "/failure"
        /\ IF GenBoolPanics(10 - rate)
           THEN SetReq(r, [plan EXCEPT !.pc = "panicked",
                                       !.hist = q.hist \o <<"plan", "trial", "panic">>])
           ELSE \E ok \in GenBoolOutcomes(10 - rate) :
                  IF ok
                  THEN SetReq(r, [plan EXCEPT !.pc = "gatePassed", !.should_succeed = TRUE,
                                              !.target_url = url,
                                              !.hist = q.hist \o <<"plan", "trial">>])
                  ELSE SetReq(r, [plan EXCEPT !.pc = "done", !.should_succeed = FALSE,
                                              !.target_url = url,
                                              !.response = SyntheticFailure(q, rate, status, url),
                                              !.hist = q.hist \o <<"plan", "trial", "respond">>])

\* Variant: the trial is drawn again when the request is forwarded.
FailureForwardRedraws(r) ==
    LET q == reqs[r]
    IN  /\ q.pc = "gatePassed"
        /\ \E ok \in {TRUE, FALSE} :
              SetReq(r, [ForwardStep(q, q.target_url) EXCEPT
                            !.should_succeed = ok,
                            !.hist = q.hist \o <<"trial", "send">>])

\* Lines 236-258: serialize, build and send the request.
FailureForward(r) ==
    LET q == reqs[r]
    IN  /\ q.pc = "gatePassed"
        /\ SetReq(r, ForwardStep(q, q.target_url))

\* Lines 289-296: client.request(req).await is Err(e).
FailureTransportError(r) ==
    LET q == reqs[r]
    IN  /\ q.pc = "awaitHead" /\ q.endpoint = "/failure"
        /\ \E cause \in TransportCauses :
              SetReq(r, [q EXCEPT !.pc = "done",
                                  !.response = ForwardErrorResponse(cause, q.target_url),
                                  !.hist = q.hist \o <<"forwardError", "respond">>])

\* Lines 259-261: the response head arrives; the body is being collected.
FailureResponseHead(r) ==
    LET q == reqs[r]
    IN  /\ q.pc = "awaitHead" /\ q.endpoint = "/failure"
        /\ \E st \in DownStatuses :
              SetReq(r, [q EXCEPT !.pc = "awaitBody", !.downStatus = st,
                                  !.hist = Append(q.hist, "head")])

\* Lines 263-271: resp.into_body().collect().await is Err(e).
FailureBodyError(r) ==
    LET q == reqs[r]
    IN  /\ q.pc = "awaitBody" /\ q.endpoint = "/failure"
        /\ \E cause \in BodyCauses :
              SetReq(r, [q EXCEPT !.pc = "done", !.response = ReadErrorResponse(cause),
                                  !.hist = q.hist \o <<"readError", "respond">>])

\* Lines 262, 274-287: the body is collected, decoded and passed on or wrapped.
FailureCompose(r) ==
    LET q == reqs[r]
    IN  /\ q.pc = "awaitBody" /\ q.endpoint = "/failure"
        /\ \E raw \in RawBodies :
              SetReq(r, [q EXCEPT !.pc = "done", !.downBody = raw,
                                  !.response = FailureSuccessResponse(q, DecodeBody(raw)),
                                  !.hist = q.hist \o <<"body", "respond">>])

(***************************************************************************)
(* Specifications                                                          *)
(***************************************************************************)
\* One step of the handler task serving slot r.
Handle(r) ==
    \/ DelayDecode(r)
    \/ DelayConstElapsed(r)
    \/ DelayRandomDraw(r)
    \/ DelayRandElapsed(r)
    \/ DelayForward(r)
    \/ DelayTransportError(r)
    \/ DelayResponseHead(r)
    \/ DelayBodyError(r)
    \/ DelayCompose(r)
    \/ FailureGate(r)
    \/ FailureForward(r)
    \/ FailureTransportError(r)
    \/ FailureResponseHead(r)
    \/ FailureBodyError(r)
    \/ FailureCompose(r)
    \/ Release(r)

\* A client sends its requests one after another, over any of the connections.
ReceiveNext(r) ==
    /\ \A o \in Reqs : reqs[o].pc = "idle"
    /\ \E in \in Inputs : Receive(r, in)

Next ==
    \/ Startup
    \/ Bind
    \/ BindError
    \/ \E r \in Reqs : ReceiveNext(r)
    \/ \E r \in Reqs : Handle(r)

Spec == Init /\ [][Next]_vars

\* Requests that clients send while other requests are still in flight.
ConcurrentInputs ==
    { [endpoint |-> "/delay", payload |-> [json |-> "{\"a\":1}"],
       headers |-> Headers("1", "0", Absent, Absent, Absent, Absent)],
      [endpoint |-> "/delay", payload |-> [json |-> "[1,2]"],
       headers |-> Headers(Absent, Absent, Absent, Absent, Absent, OverrideUrl)],
      [endpoint |-> "/failure", payload |-> [json |-> "{\"a\":1}"],
       headers |-> Headers(Absent, Absent, "1", "503", Absent, Absent)],
      [endpoint |-> "/failure", payload |-> [json |-> "[1,2]"],
       headers |-> Headers(Absent, Absent, "0", Absent, "true", OverrideUrl)] }

\* Any connection may receive a request at any time.
ReceiveConcurrent(r) == \E in \in ConcurrentInputs : Receive(r, in)

NextConcurrent ==
    \/ Startup
    \/ Bind
    \/ BindError
    \/ \E r \in Reqs : ReceiveConcurrent(r)
    \/ \E r \in Reqs : Handle(r)

SpecConcurrent == Init /\ [][NextConcurrent]_vars

(***************************************************************************)
(* Properties                                                              *)
(***************************************************************************)
Has(seq, e) == \E i \in DOMAIN seq : seq[i] = e

Responded(q) == q.pc = "done"

\* The failure trial of a /failure request ran and came out as a failure.
TrialFailed(q) ==
    /\ q.endpoint = "/failure" /\ Has(q.hist, "trial")
    /\ q.pc # "panicked" /\ ~q.should_succeed

\* The target a request must use: a readable X-Proxy-Url, else the configured URL.
ExpectedTarget(q) ==
    IF q.headers["X-Proxy-Url"] \in {Absent, OpaqueBytes}
    THEN env.TARGET_URL
    ELSE q.headers["X-Proxy-Url"]

IsSynthetic(resp) ==
    "error" \in DOMAIN resp.body /\ resp.body.error = "Simulated failure"

C3_TrialRateInUnitInterval ==
    \A r \in Reqs :
        Has(reqs[r].hist, "trial") =>
            (reqs[r].failure_rate >= 0 /\ reqs[r].failure_rate <= 10)

\* C4 (as claimed): with SUCCESS_PROBABILITY set outside [0,1] the server never
\* binds its listener and never accepts a request.
C4_OutOfRangeProbabilityStopsStartup ==
    (env.SUCCESS_PROBABILITY = "1.5") =>
        (serverPc # "listening" /\ \A r \in Reqs : reqs[r].pc = "idle")

\* C5 (as claimed): decoding the override headers never fails a request: every
\* unparseable field takes its default and, for every combination of header
\* values, the request goes on to a composed response (its task never aborts).
C5_DecodingNeverFailsRequest ==
    \A r \in Reqs :
        LET q == reqs[r]
            unreadable(n) == q.headers[n] \in {"abc", "yes", OpaqueBytes}
        IN
        /\ q.pc # "panicked"
        /\ (q.endpoint = "/delay" /\ Has(q.hist, "plan")) =>
              /\ unreadable("X-Constant-Delay-Ms") => ~q.constant_delay_ms.some
              /\ unreadable("X-Max-Random-Delay-Ms") => ~q.max_random_delay_ms.some
        /\ (q.endpoint = "/failure" /\ Has(q.hist, "plan")) =>
              /\ unreadable("X-Failure-Rate") =>
                    q.failure_rate = 10 - config.success_probability
              /\ unreadable("X-Failure-Status-Code") => q.failure_status = 500
              /\ unreadable("X-Return-Original") => ~q.return_original
        /\ (q.target_url # "" /\ unreadable("X-Proxy-Url")) =>
              q.target_url = env.TARGET_URL

\* C6: a well-formed X-Proxy-Url header makes its own request, on either
\* endpoint, forward to and report the header's URL; a request without the header
\* uses the configured target whatever other requests are in flight; and no
\* step of any request changes Config once it is loaded.
C6_TargetOfRequest ==
    \A r \in Reqs :
        LET q == reqs[r] IN
        /\ q.target_url # "" => q.target_url = ExpectedTarget(q)
        /\ \A i \in DOMAIN q.sent : q.sent[i].url = ExpectedTarget(q)
        /\ (Responded(q) /\ "target_url" \in DOMAIN q.response.body) =>
              q.response.body.target_url = ExpectedTarget(q)

C6_ProxyUrlOverrideIsPerRequest ==
    /\ [](C6_TargetOfRequest /\ (serverPc = "listening" => config.target_url = env.TARGET_URL))
    /\ [][serverPc # "start" => config' = config]_vars

C6_Witness ==
    \E a, b \in Reqs :
        /\ a # b
        /\ reqs[a].headers["X-Proxy-Url"] = OverrideUrl
        /\ reqs[a].pc = "awaitHead"
        /\ reqs[a].sent[1].url = OverrideUrl
        /\ reqs[b].headers["X-Proxy-Url"] = Absent
        /\ reqs[b].endpoint = "/delay"
        /\ Responded(reqs[b])
        /\ Has(reqs[b].hist, "body")
        /\ reqs[b].sent[1].url = ConfiguredUrl
        /\ reqs[b].response.body.target_url = ConfiguredUrl

\* The delays a /delay request has been made to wait so far.
InjectedDelay(q) == q.constSlept + q.randSlept

\* C7: once the delay stage of a /delay request is over, the injected delay T
\* satisfies constant_delay_ms <= T <= constant_delay_ms + max_random_delay_ms
\* (an absent field counting as 0), the random part lying in
\* [0, max_random_delay_ms]; with max_random_delay_ms = 0, T = constant_delay_ms.
C7_InjectedDelayBounds ==
    \A r \in Reqs :
        LET q == reqs[r]
            c == IF q.constant_delay_ms.some THEN q.constant_delay_ms.val ELSE 0
            m == IF q.max_random_delay_ms.some THEN q.max_random_delay_ms.val ELSE 0
        IN
        /\ (q.endpoint = "/delay" /\ Has(q.hist, "randStart")) =>
              (q.random_delay >= 0 /\ q.random_delay <= m)
        /\ (q.endpoint = "/delay"
              /\ q.pc \in {"afterDelay", "awaitHead", "awaitBody", "done", "panicked"}) =>
              /\ c <= InjectedDelay(q)
              /\ InjectedDelay(q) <= c + m
              /\ q.randSlept >= 0 /\ q.randSlept <= m
              /\ m = 0 => InjectedDelay(q) = c

C7_Witness ==
    \E r \in Reqs :
        /\ reqs[r].endpoint = "/delay"
        /\ reqs[r].headers["X-Constant-Delay-Ms"] = "1"
        /\ reqs[r].headers["X-Max-Random-Delay-Ms"] = "2"
        /\ Responded(reqs[r])
        /\ reqs[r].randSlept = 2
        /\ InjectedDelay(reqs[r]) = 3

\* C8 (as claimed): on both endpoints every transport failure of the forwarding
\* step, on sending the request or on reading the response body, is answered
\* with 502 and a body carrying the target URL and the cause string.
C8_TransportFailureReportsTargetAndCause ==
    \A r \in Reqs :
        LET q == reqs[r] IN
        (Responded(q) /\ (Has(q.hist, "forwardError") \/ Has(q.hist, "readError"))) =>
            /\ q.response.status = 502
            /\ "details" \in DOMAIN q.response.body
            /\ q.response.body.details \in TransportCauses \cup BodyCauses
            /\ "target_url" \in DOMAIN q.response.body
            /\ q.response.body.target_url = q.target_url

\* C9 (as claimed): on /failure with the gate passed and X-Return-Original true,
\* the response has exactly the downstream status and exactly the downstream
\* body, also when that body is not valid JSON.
C9_ReturnOriginalIsVerbatim ==
    \A r \in Reqs :
        LET q == reqs[r] IN
        (q.endpoint = "/failure" /\ Responded(q) /\ Has(q.hist, "body")
            /\ q.headers["X-Return-Original"] = "true") =>
            /\ q.response.status = q.downStatus
            /\ q.response.body.json = q.downBody

\* C10 (as claimed): every /delay response has status 200, 400 or 502.
C10_DelayStatusIs200Or400Or502 ==
    \A r \in Reqs :
        (reqs[r].endpoint = "/delay" /\ Responded(reqs[r])) =>
            reqs[r].response.status \in {200, 400, 502}

\* C10 (amended): a /delay response has the downstream's own status code when
\* the downstream answered and its body was read (200 only if the downstream
\* answered 200), 502 when sending the request or reading the body failed, and
\* 400 when the payload could not be serialized.
C10_DelayStatusFollowsDownstream ==
    \A r \in Reqs :
        LET q == reqs[r] IN
        (q.endpoint = "/delay" /\ Responded(q)) =>
            /\ Has(q.hist, "body") =>
                  (q.response.status = q.downStatus /\ q.downStatus \in DownStatuses)
            /\ (Has(q.hist, "forwardError") \/ Has(q.hist, "readError")) =>
                  q.response.status = 502
            /\ ~Has(q.hist, "send") => q.response.status = 400
            /\ q.response.status \in DownStatuses \cup {400, 502}

C10_Witness ==
    \E r \in Reqs :
        /\ reqs[r].endpoint = "/delay"
        /\ Responded(reqs[r])
        /\ Has(reqs[r].hist, "body")
        /\ reqs[r].downStatus = 500
        /\ reqs[r].response.status = 500
        /\ reqs[r].response.body.status = "success"

\* C11 (as claimed): every /delay response, also one that ends in an error, is
\* an envelope with status, applied_delays, target_url and response.
C11_EveryDelayResponseIsEnvelope ==
    \A r \in Reqs :
        (reqs[r].endpoint = "/delay" /\ Responded(reqs[r])) =>
            DOMAIN reqs[r].response.body =
                {"status", "applied_delays", "target_url", "response"}

\* C11 (amended): a /delay response composed from a collected downstream body is
\* the envelope {status, applied_delays, target_url, response}, where
\* applied_delays holds the requested constant delay (or null) and the random
\* delay as the range "0-<max>" (or null), not the value drawn; a response that
\* ends in an error (400, 502) is no envelope: it holds error and details and
\* none of status, applied_delays and response.
C11_DelayEnvelopeOnlyForCollectedBody ==
    \A r \in Reqs :
        LET q == reqs[r] IN
        (q.endpoint = "/delay" /\ Responded(q)) =>
            /\ Has(q.hist, "body") =>
                  /\ DOMAIN q.response.body =
                        {"status", "applied_delays", "target_url", "response"}
                  /\ q.response.body.status = "success"
                  /\ q.response.body.target_url = ExpectedTarget(q)
                  /\ q.response.body.applied_delays.constant_delay_ms =
                        (IF q.headers["X-Constant-Delay-Ms"] = "1" THEN Some(1) ELSE NoneN)
                  /\ q.response.body.applied_delays.random_delay_ms =
                        (CASE q.headers["X-Max-Random-Delay-Ms"] = "0" -> Some("0-0")
                           [] q.headers["X-Max-Random-Delay-Ms"] = "2" -> Some("0-2")
                           [] OTHER -> NoneS)
                  /\ q.response.body.response \in
                        {JNull, [json |-> "{\"ok\":true}"]}
            /\ ~Has(q.hist, "body") =>
                  /\ {"error", "details"} \subseteq DOMAIN q.response.body
                  /\ DOMAIN q.response.body \cap {"status", "applied_delays", "response"} = {}
                  /\ q.response.status \in {400, 502}

C11_Witness ==
    \E r \in Reqs :
        /\ reqs[r].endpoint = "/delay"
        /\ Responded(reqs[r])
        /\ Has(reqs[r].hist, "body")
        /\ reqs[r].headers["X-Constant-Delay-Ms"] = "1"
        /\ reqs[r].headers["X-Max-Random-Delay-Ms"] = "2"
        /\ reqs[r].randSlept = 1
        /\ reqs[r].response.body.applied_delays =
              [constant_delay_ms |-> Some(1), random_delay_ms |-> Some("0-2")]

\* C12: a downstream body that is not valid JSON is no error on either endpoint:
\* JSON null stands for the decoded body in /delay and in /failure alike, and the
\* response has the downstream status and the shape it has for a decodable body.
C12_UndecodableBodyBecomesNull ==
    \A r \in Reqs :
        LET q == reqs[r] IN
        (Responded(q) /\ Has(q.hist, "body") /\ q.downBody = "<html>oops</html>") =>
            /\ q.response.status = q.downStatus
            /\ "error" \notin DOMAIN q.response.body
            /\ q.endpoint = "/delay" =>
                  /\ DOMAIN q.response.body =
                        {"status", "applied_delays", "target_url", "response"}
                  /\ q.response.body.response = JNull
            /\ (q.endpoint = "/failure" /\ q.headers["X-Return-Original"] # "true") =>
                  /\ DOMAIN q.response.body = {"status", "target_url", "response"}
                  /\ q.response.body.response = JNull
            /\ (q.endpoint = "/failure" /\ q.headers["X-Return-Original"] = "true") =>
                  q.response.body = JNull

C12_Witness ==
    \E r \in Reqs :
        /\ reqs[r].endpoint = "/failure"
        /\ reqs[r].headers["X-Return-Original"] = Absent
        /\ Responded(reqs[r])
        /\ reqs[r].downBody = "<html>oops</html>"
        /\ reqs[r].downStatus = 200
        /\ reqs[r].response.status = 200
        /\ reqs[r].response.body.response = JNull

Sleeping(q) == q.pc \in {"constSleep", "randSleep"}

Count(seq, e) == Cardinality({i \in DOMAIN seq : seq[i] = e})

\* The place of the first e in seq (0 if there is none).
Index(seq, e) ==
    IF Has(seq, e)
    THEN CHOOSE i \in DOMAIN seq : seq[i] = e /\ \A j \in 1..(i - 1) : seq[j] # e
    ELSE 0

Before(seq, e, f) == Has(seq, e) /\ Has(seq, f) /\ Index(seq, e) < Index(seq, f)

\* C14: a /failure request runs its failure trial exactly once, in the first
\* step of its handler: before the request is suspended for the first time and
\* before a downstream request is built or sent; whatever other requests, timers
\* and I/O do afterwards, the outcome of the trial stays as drawn.
C14_TrialOnceAndFirst ==
    \A r \in Reqs :
        LET q == reqs[r] IN
        /\ (q.endpoint = "/failure" /\ q.pc = "received") => Count(q.hist, "trial") = 0
        /\ (q.endpoint = "/failure" /\ q.pc \notin {"idle", "received"}) =>
              /\ Count(q.hist, "trial") = 1
              /\ Len(q.hist) >= 3 /\ q.hist[3] = "trial"
              /\ Has(q.hist, "send") => Before(q.hist, "trial", "send")
              /\ q.pc \in {"awaitHead", "awaitBody"} => q.should_succeed

C14_TrialOutcomeIsFixed ==
    /\ []C14_TrialOnceAndFirst
    /\ [][\A r \in Reqs :
            (Has(reqs[r].hist, "trial") /\ reqs'[r].pc # "idle") =>
                /\ reqs'[r].should_succeed = reqs[r].should_succeed
                /\ reqs'[r].failure_rate = reqs[r].failure_rate]_vars

C14_Witness ==
    \E a, b \in Reqs :
        /\ a # b
        /\ reqs[a].endpoint = "/failure"
        /\ reqs[a].pc = "awaitBody"
        /\ reqs[a].should_succeed
        /\ Count(reqs[a].hist, "trial") = 1
        /\ Sleeping(reqs[b])

\* C15: on /delay the random wait starts only after the constant wait is over,
\* and the downstream request is sent only after every requested wait is over.
C15_WaitsAreSequential ==
    \A r \in Reqs :
        LET q == reqs[r] IN
        (q.endpoint = "/delay" /\ q.pc \notin {"idle", "received"}) =>
            /\ Has(q.hist, "constStart") <=> q.headers["X-Constant-Delay-Ms"] = "1"
            /\ q.pc = "constSleep" => ~Has(q.hist, "randStart")
            /\ (Has(q.hist, "randStart") /\ Has(q.hist, "constStart")) =>
                  Before(q.hist, "constEnd", "randStart")
            /\ q.pc = "randSleep" => q.headers["X-Max-Random-Delay-Ms"] \in {"0", "2"}
            /\ (Has(q.hist, "send") /\ q.headers["X-Constant-Delay-Ms"] = "1") =>
                  (Before(q.hist, "constEnd", "send") /\ q.constSlept = 1)
            /\ (Has(q.hist, "send") /\ q.headers["X-Max-Random-Delay-Ms"] \in {"0", "2"}) =>
                  (Before(q.hist, "randEnd", "send") /\ q.randSlept = q.random_delay)

C15_Witness ==
    \E r \in Reqs :
        /\ reqs[r].endpoint = "/delay"
        /\ reqs[r].pc = "awaitHead"
        /\ reqs[r].hist = <<"received", "plan", "constStart", "constEnd",
                            "randStart", "randEnd", "send">>
        /\ reqs[r].constSlept = 1
        /\ reqs[r].randSlept = 2

\* C16: a request on either endpoint sends at most one downstream request and
\* draws at most one failure trial: after a failed send, a failed body read or an
\* error status from the downstream it is answered without another attempt.
C16_AtMostOneForward ==
    \A r \in Reqs :
        LET q == reqs[r] IN
        /\ Len(q.sent) <= 1
        /\ Count(q.hist, "send") = Len(q.sent)
        /\ Count(q.hist, "trial") <= 1
        /\ Count(q.hist, "forwardError") + Count(q.hist, "readError")
              + Count(q.hist, "body") <= 1
        /\ (Has(q.hist, "forwardError") \/ Has(q.hist, "readError")
              \/ (Has(q.hist, "body") /\ q.downStatus = 500)) =>
              (Responded(q) /\ Len(q.sent) = 1)

C16_Witness ==
    \E r \in Reqs :
        /\ reqs[r].endpoint = "/failure"
        /\ Responded(reqs[r])
        /\ Has(reqs[r].hist, "readError")
        /\ Len(reqs[r].sent) = 1
        /\ reqs[r].response.status = 502

\* A step of the handler of slot r that is not the end of the connection's request.
Progress(r) == Handle(r) /\ reqs'[r].pc # "idle"

\* C17 (as claimed): every received request follows Received -> PlanBuilt ->
\* {GateFailed | GatePassed} -> {Forwarded | ForwardError} -> Composed -> Sent and,
\* for every header and payload input, reaches Composed and Sent once timers fire
\* and the downstream answers or fails; a request in GateFailed is never
\* forwarded.  A request's steps never loop, so it reaches Sent under those
\* assumptions exactly when no state short of Sent leaves it without a next step.
C17_EveryRequestReachesSent ==
    \A r \in Reqs :
        LET q == reqs[r] IN
        /\ q.pc \notin {"idle", "done"} => ENABLED Progress(r)
        /\ q.pc \notin {"idle", "received"} => Before(q.hist, "received", "plan")
        /\ Has(q.hist, "send") => Before(q.hist, "plan", "send")
        /\ Responded(q) => q.hist[Len(q.hist)] = "respond"
        /\ TrialFailed(q) => (~Has(q.hist, "send") /\ Responded(q))

\* The failure rate a /failure request must use, read off its X-Failure-Rate
\* header and the environment alone (tenths).
ExpectedRate(q) ==
    CASE q.headers["X-Failure-Rate"] = "0"   -> 0
      [] q.headers["X-Failure-Rate"] = "0.5" -> 5
      [] q.headers["X-Failure-Rate"] = "1"   -> 10
      [] q.headers["X-Failure-Rate"] = "2"   -> 20
      [] OTHER -> (CASE env.SUCCESS_PROBABILITY = Absent -> 2
                     [] env.SUCCESS_PROBABILITY = "0.5" -> 5
                     [] env.SUCCESS_PROBABILITY = "1.5" -> -5)

C19_EndpointModesAreDisjoint ==
    \A r \in Reqs :
        LET q == reqs[r] IN
        /\ q.endpoint = "/delay" =>
              /\ ~Has(q.hist, "trial")
              /\ ~IsSynthetic(q.response)
              /\ Responded(q) => (Has(q.hist, "send") /\ q.response.status \in {200, 500, 502})
        /\ q.endpoint = "/failure" =>
              /\ ~Sleeping(q)
              /\ ~Has(q.hist, "constStart") /\ ~Has(q.hist, "randStart")
              /\ InjectedDelay(q) = 0

C19_Witness ==
    \E r \in Reqs :
        /\ reqs[r].endpoint = "/delay"
        /\ reqs[r].headers["X-Failure-Rate"] = "1"
        /\ reqs[r].headers["X-Failure-Status-Code"] = "503"
        /\ Responded(reqs[r])
        /\ Has(reqs[r].hist, "body")
        /\ reqs[r].response.status = 200
        /\ reqs[r].response.body.status = "success"

\* C20: when the downstream answered and its body was read, the status of the
\* proxy's response is the downstream's status on both endpoints, and the
\* "status" field of a wrapped response is "success" whatever that status is.
C20_StatusPassedThroughUnderSuccess ==
    \A r \in Reqs :
        LET q == reqs[r] IN
        (Responded(q) /\ Has(q.hist, "body")) =>
            /\ q.downStatus \in DownStatuses
            /\ q.response.status = q.downStatus
            /\ (q.endpoint = "/delay" \/ q.headers["X-Return-Original"] # "true") =>
                  q.response.body.status = "success"

C20_Witness ==
    \E r \in Reqs :
        /\ reqs[r].endpoint = "/failure"
        /\ reqs[r].headers["X-Return-Original"] = Absent
        /\ Responded(reqs[r])
        /\ Has(reqs[r].hist, "body")
        /\ reqs[r].downStatus = 500
        /\ reqs[r].response.status = 500
        /\ reqs[r].response.body.status = "success"

====
